---- MODULE Spec2Model ----
(***************************************************************************)
(* Model of the dependency-injection container `Injector` of               *)
(* laba7_OOP.py: registry, recursive resolver, lifetime caches and the     *)
(* context-managed scope.                                                  *)
(***************************************************************************)
EXTENDS Integers, Sequences, FiniteSets, TLC

\* ---------------------------------------------------------------- bounds
\* Largest number of objects constructed in one behaviour.
MaxObjects == 3
\* Depth of nested get_instance frames after which Python raises
\* RecursionError.
MaxDepth == 4

\* ------------------------------------------------ the classes of the program
NONE == "None"

Interface2 == "Interface2"
Interface3 == "Interface3"
\* The service types callers register and request.
Interfaces == {Interface2, Interface3}

\* Concrete implementations.  Class2Debug and Class3Debug are the ones of
\* the program; Class2Level is a caller-supplied implementation of
\* Interface2 whose constructor takes a logger and a plain integer `level`,
\* Class3Loop a caller-supplied implementation of Interface3 whose
\* constructor takes a worker of type Interface2: with an implementation
\* of Interface2 it closes a cycle of declared parameter types.  Class2Pair
\* is a caller-supplied implementation of Interface2 whose constructor
\* takes two parameters of type Interface3.
Classes ==
    {"Class2Debug", "Class3Debug", "Class2Level", "Class3Loop", "Class2Pair"}

\* Zero-argument factory functions.
Factories == {"factory_interface3"}

LifeStyle == {"PerRequest", "Scoped", "Singleton"}

\* issubclass(cls, interface)
issubclass(cls, interface) ==
    \/ cls \in {"Class2Debug", "Class2Level", "Class2Pair"} /\ interface = Interface2
    \/ cls \in {"Class3Debug", "Class3Loop"} /\ interface = Interface3

\* get_type_hints(cls.__init__): the annotated parameters in declaration
\* order ({} for a class without an __init__ of its own).
get_type_hints(cls) ==
    CASE cls = "Class2Debug" -> << [name |-> "logger", type |-> Interface3] >>
      [] cls = "Class2Level" -> << [name |-> "logger", type |-> Interface3],
                                   [name |-> "level", type |-> "int"] >>
      [] cls = "Class3Loop" -> << [name |-> "worker", type |-> Interface2] >>
      [] cls = "Class2Pair" -> << [name |-> "logger", type |-> Interface3],
                                  [name |-> "backup", type |-> Interface3] >>
      [] OTHER -> << >>

callable(x) == x \in Classes \cup Factories
isinstance_type(x) == x \in Classes

\* ------------------------------------------------------------------ values
\* A value is an object or a literal.  An object is known by its identity
\* id (the rank of its construction: no two constructions share one), its
\* class and the keyword arguments its constructor received; the classes of
\* the program never change an object after construction.
Obj(i, cls, kwargs) == [k |-> "obj", id |-> i, cls |-> cls, args |-> kwargs]
Lit(n) == [k |-> "lit", id |-> n, cls |-> "int", args |-> << >>]
NoValue == [k |-> "none", id |-> 0, cls |-> "None", args |-> << >>]

EmptyDict == << >>
\* d.update(e)
update(d, e) == e @@ d

\* The `params` arguments callers pass to register.
ParamInputs ==
    { EmptyDict, "level" :> Lit(1), "level" :> Lit(2), "logger" :> Lit(7) }

\* The register calls callers make: a service type, a producer (a class, the
\* factory function of Interface3 or None) and a life style (or None), with
\* the params that mean something to the producer: level 1 for Class2Level,
\* level 2 for the factory function, a literal in place of the logger for
\* Class2Debug.  A class passed without a life style, or with params, is one
\* of the service type's own implementations; Class3Loop and Class2Pair
\* are left to CycleInputs.
ParamsFor(class_type, life_style) ==
    IF class_type = "Class2Level" /\ life_style # NONE
    THEN { EmptyDict, "level" :> Lit(1) }
    ELSE IF class_type = "Class2Debug" /\ life_style # NONE
    THEN { EmptyDict, "logger" :> Lit(7) }
    ELSE IF class_type = "factory_interface3" /\ life_style = NONE
    THEN { EmptyDict, "level" :> Lit(2) }
    ELSE { EmptyDict }

RegisterInputs ==
    { x \in Interfaces \X (Classes \cup Factories \cup {NONE})
              \X (LifeStyle \cup {NONE}) \X ParamInputs :
        /\ x[4] \in ParamsFor(x[2], x[3])
        /\ x[4] # EmptyDict => (x[2] \in Classes => issubclass(x[2], x[1]))
        /\ x[2] \in Factories => x[1] = Interface3
        /\ (x[2] \in Classes /\ x[3] = NONE) => issubclass(x[2], x[1])
        /\ x[2] \notin {"Class3Loop", "Class2Pair"} }

\* The register calls of a caller who configures a cycle: Class2Debug or
\* Class2Pair for Interface2, and Class3Loop or Class3Debug for Interface3,
\* each with a life style and no params.
CycleInputs ==
    { x \in Interfaces \X {"Class2Debug", "Class2Pair", "Class3Loop", "Class3Debug"}
              \X LifeStyle \X {EmptyDict} : issubclass(x[2], x[1]) }

VARIABLES
    registrations,    \* self._registrations: service type -> registration
    singleton_cache,  \* self._singleton_cache
    scoped_cache,     \* self._scoped_cache: << >> is None, << d >> is the dict d
    in_scope,         \* self._in_scope
    objects,          \* the number of objects constructed so far
    last,             \* the caller's view of the last call: what it returned or
                      \* raised (t: the type asked of get_instance)
    singleton_got,    \* per service type, the identity of the object its last
                      \* successful Singleton get_instance returned since it was
                      \* last registered (0: none yet)
    scope_got,        \* per service type, the identity of the object its last
                      \* successful Scoped get_instance returned in the open scope
    closed_got,       \* per service type, the identities of the objects Scoped
                      \* get_instance calls returned in scopes now closed, since
                      \* it was last registered
    threads,          \* per thread that shares the container: the statement
                      \* it is at and its local variables
    keyboard,         \* the Keyboard object of laba6_OOP.py: its fields and
                      \* those of its three State objects
    history           \* the History object of the keyboard

vars == << registrations, singleton_cache, scoped_cache, in_scope, objects, last,
           singleton_got, scope_got, closed_got, threads, keyboard, history >>
observed == << singleton_got, scope_got, closed_got >>
\* The variables of the container, single-threaded callers' view included.
injector == << registrations, singleton_cache, scoped_cache, in_scope, objects,
               last, singleton_got, scope_got, closed_got >>
\* What the single-threaded calls of the container leave alone.
others == << threads, keyboard, history >>

None == << >>
Some(d) == << d >>

\* interface_type in self._registrations
\* The assignment that leaves the new item as the only one of the dict.
SetItem_alone(regs, t, r) == t :> r

\* The item set only when the key is not yet in the dict (setdefault).
SetItem_first(regs, t, r) == IF t \in DOMAIN regs THEN regs ELSE update(regs, t :> r)

Registered(regs, t) == t \in DOMAIN regs
\* self._registrations[interface_type]
Lookup(regs, t) == regs[t]
\* self._registrations[interface_type] = registration
SetItem(regs, t, r) == update(regs, t :> r)

\* The threads that share one container.
Threads == {1, 2}

\* A thread between two calls, outside any with block, that has called
\* nothing yet.
ThreadIdle ==
    [pc |-> "idle", body |-> FALSE, instance |-> NoValue, ret |-> NoValue,
     exc |-> NONE, miss |-> FALSE, got |-> NoValue, torn |-> FALSE,
     late |-> FALSE]

\* Keyboard.__init__ with TextState(), VolumeState() and MediaState().
KeyboardNew ==
    [key_binds |-> EmptyDict, current_text |-> << >>, volume |-> 50,
     is_playing |-> FALSE, output_log |-> << >>, op |-> "init", key |-> "",
     exc |-> NONE]

\* History.__init__
\* The None a History method returns in place of a command.
NoCommand == [type |-> "None", symbol |-> "", step |-> 0]
HistoryNew ==
    [command_history |-> << >>, history_pointer |-> -1, ret |-> NoCommand, cut |-> 0]

Init ==
    /\ threads = [p \in Threads |-> ThreadIdle]
    /\ keyboard = KeyboardNew
    /\ history = HistoryNew
    /\ registrations = EmptyDict
    /\ singleton_cache = EmptyDict
    /\ scoped_cache = None
    /\ in_scope = FALSE
    /\ objects = 0
    /\ singleton_got = [t \in Interfaces |-> 0]
    /\ scope_got = [t \in Interfaces |-> 0]
    /\ closed_got = [t \in Interfaces |-> {}]
    /\ last = [op |-> "init", t |-> NONE, exc |-> NONE, ret |-> NoValue, fcalls |-> 0, made |-> << >>]

\* ---------------------------------------------------------------- register
Stored(regs, interface_type, class_type, life_style, params, is_factory) ==
    [exc |-> NONE,
     registrations |-> SetItem(regs, interface_type,
        [class_type |-> class_type,
         life_style |-> life_style, params |-> params,
         is_factory |-> is_factory])]

Rejected(regs, exc) == [exc |-> exc, registrations |-> regs]

\* register without the guard on an open scope.
register_unguarded(regs, scope_flag, interface_type, class_type, life_style, params) ==
    IF callable(class_type) /\ life_style = NONE
    THEN Stored(regs, interface_type, class_type, NONE, params, TRUE)
    ELSE IF class_type # NONE /\ isinstance_type(class_type) /\ life_style # NONE
    THEN IF ~issubclass(class_type, interface_type)
         THEN Rejected(regs, "TypeError")
         ELSE Stored(regs, interface_type, class_type, life_style, params, FALSE)
    ELSE Rejected(regs, "ValueError")

\* register without the issubclass test of the class against the interface.
register_any_class(regs, scope_flag, interface_type, class_type, life_style, params) ==
    IF scope_flag
    THEN Rejected(regs, "InjectorAlreadyConfiguredError")
    ELSE IF callable(class_type) /\ life_style = NONE
    THEN Stored(regs, interface_type, class_type, NONE, params, TRUE)
    ELSE IF class_type # NONE /\ isinstance_type(class_type) /\ life_style # NONE
    THEN Stored(regs, interface_type, class_type, life_style, params, FALSE)
    ELSE Rejected(regs, "ValueError")

\* Injector.register: the exception it raises (NONE when it returns) and the
\* registry it leaves.
register(regs, scope_flag, interface_type, class_type, life_style, params) ==
    IF scope_flag
    THEN Rejected(regs, "InjectorAlreadyConfiguredError")
    ELSE IF callable(class_type) /\ life_style = NONE
    THEN Stored(regs, interface_type, class_type, NONE, params, TRUE)
    ELSE IF class_type # NONE /\ isinstance_type(class_type) /\ life_style # NONE
    THEN IF ~issubclass(class_type, interface_type)
         THEN Rejected(regs, "TypeError")
         ELSE Stored(regs, interface_type, class_type, life_style, params, FALSE)
    ELSE Rejected(regs, "ValueError")

Register(interface_type, class_type, life_style, params) ==
    LET r == register(registrations, in_scope, interface_type, class_type,
                      life_style, params)
    IN /\ registrations' = r.registrations
       /\ last' = [op |-> "register", t |-> NONE, exc |-> r.exc,
                   ret |-> NoValue, fcalls |-> 0, made |-> << >>]
       /\ singleton_got' = IF r.exc = NONE
                            THEN [singleton_got EXCEPT ![interface_type] = 0]
                            ELSE singleton_got
       /\ closed_got' = IF r.exc = NONE
                         THEN [closed_got EXCEPT ![interface_type] = {}]
                         ELSE closed_got
       /\ UNCHANGED << singleton_cache, scoped_cache, in_scope, objects, scope_got >>
       /\ UNCHANGED others

\* ------------------------------------------------------------ get_instance
\* The mutable state a resolution threads through its frames, with the
\* outcome of the frame: exc is the exception raised (NONE when the frame
\* returns) and ret the value returned.
Frame(sc, sp, n) ==
    [singleton_cache |-> sc, scoped_cache |-> sp, objects |-> n,
     fcalls |-> 0, made |-> << >>, exc |-> NONE, ret |-> NoValue]

Return(st, v) == [st EXCEPT !.exc = NONE, !.ret = v]
Raise(st, e) == [st EXCEPT !.exc = e, !.ret = NoValue]

ParamNames(cls) == { get_type_hints(cls)[i].name : i \in 1..Len(get_type_hints(cls)) }

\* cls(**kwargs): a new object, or TypeError when the keyword arguments are
\* not exactly the constructor's parameters.
Construct(st, cls, kwargs) ==
    IF DOMAIN kwargs # ParamNames(cls)
    THEN Raise(st, "TypeError")
    ELSE [st EXCEPT !.objects = @ + 1,
                    !.made = Append(@, cls),
                    !.exc = NONE,
                    !.ret = Obj(st.objects + 1, cls, kwargs)]

\* factory(): factory_interface3 returns Class3Debug(); a class stored as a
\* factory is called with no arguments.
CallFactory(st, factory) ==
    LET called == [st EXCEPT !.fcalls = @ + 1]
    IN IF factory = "factory_interface3"
       THEN Construct(called, "Class3Debug", EmptyDict)
       ELSE Construct(called, factory, EmptyDict)

\* Injector._get_active_params: the params of all registrations merged into
\* one dict.  With the params callers pass (ParamsFor) a name has two
\* values only when one of them is in the record of the one class that has
\* the parameter, and _create_instance applies that record's params last:
\* the order in which the registrations are merged does not show in any
\* object.
RECURSIVE merge_params(_, _)
merge_params(regs, keys) ==
    IF keys = {} THEN EmptyDict
    ELSE LET t == CHOOSE t \in keys : TRUE
         IN update(merge_params(regs, keys \ {t}), regs[t].params)

\* The pool taken from the class registrations only.
get_active_params_classes(regs) ==
    merge_params(regs, { t \in DOMAIN regs : ~regs[t].is_factory })

get_active_params(regs) == merge_params(regs, DOMAIN regs)

\* A singleton that is constructed but never stored.
singleton_not_stored(st, interface_type, instance) == st

\* A singleton constructed while a scope is open kept in the scoped cache.
store_singleton_in_scope(st, interface_type, instance) ==
    IF st.scoped_cache = None
    THEN [st EXCEPT !.singleton_cache = update(@, interface_type :> instance)]
    ELSE [st EXCEPT !.scoped_cache = Some(update(@[1], interface_type :> instance))]

\* The singleton cache replaced by a dict of the new instance alone.
store_singleton_alone(st, interface_type, instance) ==
    [st EXCEPT !.singleton_cache = interface_type :> instance]

\* self._singleton_cache[interface_type] = instance
store_singleton(st, interface_type, instance) ==
    [st EXCEPT !.singleton_cache = update(@, interface_type :> instance)]

\* A scoped instance that is constructed but never stored.
scoped_not_stored(st, interface_type, instance) == st

\* self._scoped_cache[interface_type] = instance
store_scoped(st, interface_type, instance) ==
    [st EXCEPT !.scoped_cache = Some(update(@[1], interface_type :> instance))]

\* PerRequest handled as Singleton.
life_style_per_request_cached(reg) ==
    IF reg.life_style = "PerRequest" THEN "Singleton" ELSE reg.life_style

\* life_style = reg["life_style"]
life_style_of(reg) == reg.life_style

\* The result of the factory kept as the singleton of the service type.
factory_result_cached(r, interface_type) ==
    IF r.exc = NONE THEN store_singleton(r, interface_type, r.ret) ELSE r

\* return factory(): the outcome r of the factory call is the outcome of
\* get_instance.
factory_result(r, interface_type) == r

\* The look-up made without the membership test: the dict raises KeyError.
not_registered_key_error(st, interface_type) == Raise(st, "KeyError")

\* raise UnregisteredDependencyError(...) of get_instance
not_registered(st, interface_type) == Raise(st, "UnregisteredDependencyError")

RECURSIVE get_instance(_, _, _, _)
RECURSIVE create_instance(_, _, _, _)
RECURSIVE resolve_params(_, _, _, _, _, _)

\* A dependency constructed anew for every requester, whatever its own
\* life style.
resolve_dependency_new(regs, st, param_type, depth) ==
    IF depth >= MaxDepth THEN Raise(st, "RecursionError")
    ELSE create_instance(regs, st, param_type, depth + 1)

\* A dependency resolved in a scope of its own when none is open.
resolve_dependency_own_scope(regs, st, param_type, depth) ==
    get_instance(regs,
        [st EXCEPT !.scoped_cache = IF @ = None THEN Some(EmptyDict) ELSE @],
        param_type, depth + 1)

\* self.get_instance(param_type), called one frame deeper.
resolve_dependency(regs, st, param_type, depth) ==
    get_instance(regs, st, param_type, depth + 1)

\* The loop of Injector._resolve_constructor_dependencies from the i-th
\* hint on, deps being the arguments resolved so far; ret is the deps dict.
resolve_params(regs, st, cls, i, deps, depth) ==
    LET hints == get_type_hints(cls)
    IN IF i > Len(hints) THEN Return(st, deps)
       ELSE LET param_name == hints[i].name
                param_type == hints[i].type
            IN IF Registered(regs, param_type)
               THEN LET r == resolve_dependency(regs, st, param_type, depth)
                    IN IF r.exc # NONE THEN r
                       ELSE resolve_params(regs, r, cls, i + 1,
                                update(deps, param_name :> r.ret), depth)
               ELSE IF param_name \in DOMAIN get_active_params(regs)
               THEN resolve_params(regs, st, cls, i + 1,
                        update(deps, param_name :> get_active_params(regs)[param_name]),
                        depth)
               ELSE Raise(st, "UnregisteredDependencyError")

resolve_constructor_dependencies(regs, st, cls, depth) ==
    resolve_params(regs, st, cls, 1, EmptyDict, depth)

\* _create_instance that resolves nothing when the record's params name
\* every parameter of the constructor.
create_instance_params_first(regs, st, interface_type, depth) ==
    LET reg == Lookup(regs, interface_type)
        r == resolve_constructor_dependencies(regs, st, reg.class_type, depth)
    IN IF ParamNames(reg.class_type) \subseteq DOMAIN reg.params
       THEN Construct(st, reg.class_type, reg.params)
       ELSE IF r.exc # NONE THEN r
       ELSE Construct(r, reg.class_type, update(r.ret, reg.params))

\* _create_instance with the update turned round: the resolved
\* dependencies are applied over the record's params.
create_instance_deps_last(regs, st, interface_type, depth) ==
    LET reg == Lookup(regs, interface_type)
        r == resolve_constructor_dependencies(regs, st, reg.class_type, depth)
    IN IF r.exc # NONE THEN r
       ELSE Construct(r, reg.class_type, update(reg.params, r.ret))

\* Injector._create_instance
create_instance(regs, st, interface_type, depth) ==
    LET reg == Lookup(regs, interface_type)
        cls == reg.class_type
        manual_params == reg.params
        r == resolve_constructor_dependencies(regs, st, cls, depth)
    IN IF r.exc # NONE THEN r
       ELSE Construct(r, cls, update(r.ret, manual_params))

\* get_instance that puts a Singleton into the cache before its constructor
\* arguments are resolved.
get_instance_early_cache(regs, st, interface_type, depth) ==
    IF depth > MaxDepth THEN Raise(st, "RecursionError")
    ELSE IF ~Registered(regs, interface_type)
    THEN not_registered(st, interface_type)
    ELSE LET reg == Lookup(regs, interface_type)
         IN IF reg.is_factory
            THEN factory_result(CallFactory(st, reg.class_type), interface_type)
            ELSE IF reg.life_style = "Singleton"
            THEN IF interface_type \in DOMAIN st.singleton_cache
                 THEN Return(st, st.singleton_cache[interface_type])
                 ELSE LET early == store_singleton(st, interface_type,
                                       Obj(0, reg.class_type, EmptyDict))
                          r == create_instance(regs, early, interface_type, depth)
                      IN IF r.exc # NONE THEN r
                         ELSE store_singleton(r, interface_type, r.ret)
            ELSE IF reg.life_style = "Scoped"
            THEN IF st.scoped_cache = None
                 THEN Raise(st, "RuntimeError")
                 ELSE IF interface_type \in DOMAIN st.scoped_cache[1]
                 THEN Return(st, st.scoped_cache[1][interface_type])
                 ELSE LET r == create_instance(regs, st, interface_type, depth)
                      IN IF r.exc # NONE THEN r
                         ELSE store_scoped(r, interface_type, r.ret)
            ELSE create_instance(regs, st, interface_type, depth)

\* Injector.get_instance, one frame at the given depth of the Python stack.
get_instance(regs, st, interface_type, depth) ==
    IF depth > MaxDepth THEN Raise(st, "RecursionError")
    ELSE IF ~Registered(regs, interface_type)
    THEN not_registered(st, interface_type)
    ELSE LET reg == Lookup(regs, interface_type)
             life_style == life_style_of(reg)
         IN IF reg.is_factory
            THEN factory_result(CallFactory(st, reg.class_type), interface_type)
            ELSE IF life_style = "Singleton"
            THEN IF interface_type \in DOMAIN st.singleton_cache
                 THEN Return(st, st.singleton_cache[interface_type])
                 ELSE LET r == create_instance(regs, st, interface_type, depth)
                      IN IF r.exc # NONE THEN r
                         ELSE store_singleton(r, interface_type, r.ret)
            ELSE IF life_style = "Scoped"
            THEN IF st.scoped_cache = None
                 THEN Raise(st, "RuntimeError")
                 ELSE IF interface_type \in DOMAIN st.scoped_cache[1]
                 THEN Return(st, st.scoped_cache[1][interface_type])
                 ELSE LET r == create_instance(regs, st, interface_type, depth)
                      IN IF r.exc # NONE THEN r
                         ELSE store_scoped(r, interface_type, r.ret)
            ELSE IF life_style = "PerRequest"
            THEN create_instance(regs, st, interface_type, depth)
            ELSE Raise(st, "ValueError")

\* The registration of t is a class with the given life style.
HasLifeStyle(regs, t, life_style) ==
    /\ Registered(regs, t)
    /\ ~Lookup(regs, t).is_factory
    /\ Lookup(regs, t).life_style = life_style
\* The registration of t is a factory.
IsFactory(regs, t) == Registered(regs, t) /\ Lookup(regs, t).is_factory
IsSingleton(regs, t) == HasLifeStyle(regs, t, "Singleton")
IsScoped(regs, t) == HasLifeStyle(regs, t, "Scoped")
IsPerRequest(regs, t) == HasLifeStyle(regs, t, "PerRequest")

GetInstance(interface_type) ==
    LET r == get_instance(registrations,
                 Frame(singleton_cache, scoped_cache, objects),
                 interface_type, 1)
    IN /\ r.objects <= MaxObjects
       /\ singleton_cache' = r.singleton_cache
       /\ scoped_cache' = r.scoped_cache
       /\ objects' = r.objects
       /\ last' = [op |-> "get_instance", t |-> interface_type, exc |-> r.exc,
                   ret |-> r.ret, fcalls |-> r.fcalls, made |-> r.made]
       /\ singleton_got' =
            IF r.exc = NONE /\ IsSingleton(registrations, interface_type)
            THEN [singleton_got EXCEPT ![interface_type] = r.ret.id]
            ELSE singleton_got
       /\ scope_got' = IF r.exc = NONE /\ IsScoped(registrations, interface_type)
                        THEN [scope_got EXCEPT ![interface_type] = r.ret.id]
                        ELSE scope_got
       /\ UNCHANGED << registrations, in_scope, closed_got >>
       /\ UNCHANGED others

\* ------------------------------------------------------------------- scope
\* scope entered by setting the flag only, the cache left as it was.
scope_enter_flag_only(scope_flag, cache) ==
    IF scope_flag
    THEN [exc |-> "RuntimeError", in_scope |-> scope_flag, scoped_cache |-> cache]
    ELSE [exc |-> NONE, in_scope |-> TRUE, scoped_cache |-> cache]

\* scope entered without the check for an open scope.
scope_enter_unchecked(scope_flag, cache) ==
    [exc |-> NONE, in_scope |-> TRUE, scoped_cache |-> Some(EmptyDict)]

\* Entering `with injector.scope()`: the generator up to its yield.
scope_enter(scope_flag, cache) ==
    IF scope_flag
    THEN [exc |-> "RuntimeError", in_scope |-> scope_flag, scoped_cache |-> cache]
    ELSE [exc |-> NONE, in_scope |-> TRUE, scoped_cache |-> Some(EmptyDict)]

\* The clean-up written after the yield without try/finally: an exception
\* raised by the body skips it.
scope_exit_no_finally(raised, scope_flag, cache) ==
    IF raised
    THEN [in_scope |-> scope_flag, scoped_cache |-> cache]
    ELSE [in_scope |-> FALSE, scoped_cache |-> None]

\* The clean-up that clears the flag and keeps the cache.
scope_exit_keeps_cache(raised, scope_flag, cache) ==
    [in_scope |-> FALSE, scoped_cache |-> cache]

\* Leaving the with block: the generator's finally clause, which runs
\* whether the body completed (raised = FALSE) or raised.
scope_exit(raised, scope_flag, cache) ==
    [in_scope |-> FALSE, scoped_cache |-> None]

OpenScope ==
    LET r == scope_enter(in_scope, scoped_cache)
    IN /\ in_scope' = r.in_scope
       /\ scoped_cache' = r.scoped_cache
       /\ last' = [op |-> "scope", t |-> NONE, exc |-> r.exc, ret |-> NoValue,
                   fcalls |-> 0, made |-> << >>]
       /\ UNCHANGED << registrations, singleton_cache, objects, observed >>
       /\ UNCHANGED others

\* The with block ends.  It ends by an exception when the last call made in
\* its body raised and the body does not catch it; the exception then goes
\* on to the caller of the with statement.
CloseScope(raised) ==
    /\ in_scope
    /\ raised => last.exc # NONE
    /\ LET r == scope_exit(raised, in_scope, scoped_cache)
       IN /\ in_scope' = r.in_scope
          /\ scoped_cache' = r.scoped_cache
    /\ last' = [op |-> "scope_exit", t |-> NONE,
                exc |-> IF raised THEN last.exc ELSE NONE,
                ret |-> NoValue, fcalls |-> 0, made |-> << >>]
    /\ scope_got' = [t \in Interfaces |-> 0]
    /\ closed_got' = [t \in Interfaces |->
           closed_got[t] \cup (IF scope_got[t] = 0 THEN {} ELSE {scope_got[t]})]
    /\ UNCHANGED << registrations, singleton_cache, objects, singleton_got >>
    /\ UNCHANGED others

Next ==
    \/ \E x \in RegisterInputs : Register(x[1], x[2], x[3], x[4])
    \/ \E t \in Interfaces : GetInstance(t)
    \/ OpenScope
    \/ \E raised \in BOOLEAN : CloseScope(raised)

Spec == Init /\ [][Next]_vars

\* The container under a caller who registers the classes of CycleInputs.
NextCycle ==
    \/ \E x \in CycleInputs : Register(x[1], x[2], x[3], x[4])
    \/ \E t \in Interfaces : GetInstance(t)
    \/ OpenScope
    \/ \E raised \in BOOLEAN : CloseScope(raised)

SpecCycle == Init /\ [][NextCycle]_vars

\* ------------------------------------------------- threads on one container
\* Two threads call get_instance(Interface3) and enter and leave
\* `with injector.scope()` on one Injector, on which Interface3 is registered
\* with Class3Debug.  A thread may be suspended between any two statements
\* of Injector.get_instance and Injector.scope, so each action below is one
\* statement of thread p.  A thread whose call raised inside a with block
\* catches the exception there and goes on.
Running(p, pc) == threads[p].pc = pc
Goes(p, rec) == threads' = [threads EXCEPT ![p] = rec]
ThreadFrame == Frame(singleton_cache, scoped_cache, objects)
Unshared == << last, singleton_got, scope_got, closed_got, keyboard, history >>

\* The call returns v to thread p; a Scoped object returned inside the with
\* block, before any other thread's exit cleared the cache, is remembered as
\* the one obtained there.
Returns(p, v, scoped) ==
    Goes(p, [threads[p] EXCEPT !.pc = "idle", !.ret = v, !.exc = NONE,
                !.instance = NoValue,
                !.got = IF scoped /\ threads[p].body /\ ~threads[p].torn THEN v ELSE @])
Raises(p, exc) ==
    Goes(p, [threads[p] EXCEPT !.pc = "idle", !.ret = NoValue, !.exc = exc,
                !.instance = NoValue])

\* get_instance up to the branch on the life style (lines 113-124, 131).
CallGetInstance(p) ==
    /\ Running(p, "idle")
    /\ IF ~Registered(registrations, Interface3)
       THEN Raises(p, "UnregisteredDependencyError")
       ELSE Goes(p, [threads[p] EXCEPT
               !.pc = IF life_style_of(Lookup(registrations, Interface3)) = "Singleton"
                      THEN "singleton_in" ELSE "scoped_none",
               !.ret = NoValue, !.exc = NONE, !.miss = FALSE,
               !.late = threads[p].torn])
    /\ UNCHANGED << registrations, singleton_cache, scoped_cache, in_scope, objects >>
    /\ UNCHANGED Unshared

\* if interface_type in self._singleton_cache (line 125)
SingletonIn(p) ==
    /\ Running(p, "singleton_in")
    /\ IF Interface3 \in DOMAIN singleton_cache
       THEN Goes(p, [threads[p] EXCEPT !.pc = "singleton_read"])
       ELSE Goes(p, [threads[p] EXCEPT !.pc = "singleton_create", !.miss = TRUE])
    /\ UNCHANGED << registrations, singleton_cache, scoped_cache, in_scope, objects >>
    /\ UNCHANGED Unshared

\* return self._singleton_cache[interface_type] (line 126)
SingletonRead(p) ==
    /\ Running(p, "singleton_read")
    /\ Returns(p, singleton_cache[Interface3], FALSE)
    /\ UNCHANGED << registrations, singleton_cache, scoped_cache, in_scope, objects >>
    /\ UNCHANGED Unshared

\* instance = self._create_instance(interface_type) (lines 127, 136)
CreateInstance(p, pc, next) ==
    /\ Running(p, pc)
    /\ objects < MaxObjects
    /\ LET r == create_instance(registrations, ThreadFrame, Interface3, 1)
       IN /\ objects' = r.objects
          /\ Goes(p, [threads[p] EXCEPT !.pc = next, !.instance = r.ret])
    /\ UNCHANGED << registrations, singleton_cache, scoped_cache, in_scope >>
    /\ UNCHANGED Unshared

\* The stored object replaced by the one another thread stored first
\* (dict.setdefault).
returned_singleton_first(cache, interface_type, instance) ==
    IF interface_type \in DOMAIN cache THEN cache[interface_type] ELSE instance

\* return instance (line 129): the thread's own local, whatever the cache
\* held when it stored.
returned_singleton(cache, interface_type, instance) == instance

\* self._singleton_cache[interface_type] = instance; return instance
\* (lines 128-129)
SingletonStore(p) ==
    /\ Running(p, "singleton_store")
    /\ singleton_cache' =
         store_singleton(ThreadFrame, Interface3, threads[p].instance).singleton_cache
    /\ Returns(p, returned_singleton(singleton_cache, Interface3,
                                     threads[p].instance), FALSE)
    /\ UNCHANGED << registrations, scoped_cache, in_scope, objects >>
    /\ UNCHANGED Unshared

\* if self._scoped_cache is None: raise RuntimeError (lines 132-133)
ScopedNone(p) ==
    /\ Running(p, "scoped_none")
    /\ IF scoped_cache = None
       THEN Raises(p, "RuntimeError")
       ELSE Goes(p, [threads[p] EXCEPT !.pc = "scoped_in"])
    /\ UNCHANGED << registrations, singleton_cache, scoped_cache, in_scope, objects >>
    /\ UNCHANGED Unshared

\* if interface_type in self._scoped_cache (line 134); `in None` is a
\* TypeError.
ScopedIn(p) ==
    /\ Running(p, "scoped_in")
    /\ IF scoped_cache = None
       THEN Raises(p, "TypeError")
       ELSE IF Interface3 \in DOMAIN scoped_cache[1]
       THEN Goes(p, [threads[p] EXCEPT !.pc = "scoped_read"])
       ELSE Goes(p, [threads[p] EXCEPT !.pc = "scoped_create", !.miss = TRUE])
    /\ UNCHANGED << registrations, singleton_cache, scoped_cache, in_scope, objects >>
    /\ UNCHANGED Unshared

\* return self._scoped_cache[interface_type] (line 135); None[...] is a
\* TypeError, a missing key a KeyError.
ScopedRead(p) ==
    /\ Running(p, "scoped_read")
    /\ IF scoped_cache = None
       THEN Raises(p, "TypeError")
       ELSE IF Interface3 \notin DOMAIN scoped_cache[1]
       THEN Raises(p, "KeyError")
       ELSE Returns(p, scoped_cache[1][Interface3], TRUE)
    /\ UNCHANGED << registrations, singleton_cache, scoped_cache, in_scope, objects >>
    /\ UNCHANGED Unshared

\* self._scoped_cache[interface_type] = instance; return instance
\* (lines 137-138); None[...] = ... is a TypeError.
ScopedStore(p) ==
    /\ Running(p, "scoped_store")
    /\ IF scoped_cache = None
       THEN Raises(p, "TypeError") /\ UNCHANGED scoped_cache
       ELSE /\ scoped_cache' =
                 store_scoped(ThreadFrame, Interface3, threads[p].instance).scoped_cache
            /\ Returns(p, threads[p].instance, TRUE)
    /\ UNCHANGED << registrations, singleton_cache, in_scope, objects >>
    /\ UNCHANGED Unshared

\* with injector.scope(): if self._in_scope: raise RuntimeError
\* (lines 155-156), by a thread that is in no with block.
EnterCheck(p) ==
    /\ Running(p, "idle") /\ ~threads[p].body
    /\ IF in_scope
       THEN Raises(p, "RuntimeError")
       ELSE Goes(p, [threads[p] EXCEPT !.pc = "enter_flag", !.exc = NONE,
                        !.ret = NoValue])
    /\ UNCHANGED << registrations, singleton_cache, scoped_cache, in_scope, objects >>
    /\ UNCHANGED Unshared

\* self._in_scope = True (line 157)
EnterFlag(p) ==
    /\ Running(p, "enter_flag")
    /\ in_scope' = TRUE
    /\ Goes(p, [threads[p] EXCEPT !.pc = "enter_cache"])
    /\ UNCHANGED << registrations, singleton_cache, scoped_cache, objects >>
    /\ UNCHANGED Unshared

\* self._scoped_cache = {} and the yield (lines 158-160): the thread is in
\* the body of its with block.
EnterCache(p) ==
    /\ Running(p, "enter_cache")
    /\ scoped_cache' = scope_enter(FALSE, scoped_cache).scoped_cache
    /\ Goes(p, [threads[p] EXCEPT !.pc = "idle", !.body = TRUE,
                    !.got = NoValue, !.torn = FALSE, !.late = FALSE])
    /\ UNCHANGED << registrations, singleton_cache, in_scope, objects >>
    /\ UNCHANGED Unshared

\* The body of p's with block ends: self._scoped_cache = None (line 162).
\* Every other thread that is in the body of a with block has its scope
\* torn down from then on.
ExitCache(p) ==
    /\ Running(p, "idle") /\ threads[p].body
    /\ scoped_cache' = scope_exit(FALSE, in_scope, scoped_cache).scoped_cache
    /\ threads' = [q \in Threads |->
          IF q = p THEN [threads[p] EXCEPT !.pc = "exit_flag"]
          ELSE IF threads[q].body THEN [threads[q] EXCEPT !.torn = TRUE]
          ELSE threads[q]]
    /\ UNCHANGED << registrations, singleton_cache, in_scope, objects >>
    /\ UNCHANGED Unshared

\* self._in_scope = False (line 163)
ExitFlag(p) ==
    /\ Running(p, "exit_flag")
    /\ in_scope' = scope_exit(FALSE, in_scope, scoped_cache).in_scope
    /\ Goes(p, [threads[p] EXCEPT !.pc = "idle", !.body = FALSE,
                    !.got = NoValue, !.torn = FALSE, !.late = FALSE])
    /\ UNCHANGED << registrations, singleton_cache, scoped_cache, objects >>
    /\ UNCHANGED Unshared

\* The life styles Interface3 is registered with before the threads start.
ThreadLifeStyles == {"Singleton", "Scoped"}

InitThreads ==
    /\ threads = [p \in Threads |-> ThreadIdle]
    /\ keyboard = KeyboardNew
    /\ history = HistoryNew
    /\ \E life_style \in ThreadLifeStyles :
          registrations = register(EmptyDict, FALSE, Interface3, "Class3Debug",
                                   life_style, EmptyDict).registrations
    /\ singleton_cache = EmptyDict
    /\ scoped_cache = None
    /\ in_scope = FALSE
    /\ objects = 0
    /\ singleton_got = [t \in Interfaces |-> 0]
    /\ scope_got = [t \in Interfaces |-> 0]
    /\ closed_got = [t \in Interfaces |-> {}]
    /\ last = [op |-> "register", t |-> NONE, exc |-> NONE, ret |-> NoValue,
               fcalls |-> 0, made |-> << >>]

NextThreads ==
    \E p \in Threads :
        \/ CallGetInstance(p)
        \/ SingletonIn(p)
        \/ SingletonRead(p)
        \/ CreateInstance(p, "singleton_create", "singleton_store")
        \/ SingletonStore(p)
        \/ ScopedNone(p)
        \/ ScopedIn(p)
        \/ ScopedRead(p)
        \/ CreateInstance(p, "scoped_create", "scoped_store")
        \/ ScopedStore(p)
        \/ EnterCheck(p)
        \/ EnterFlag(p)
        \/ EnterCache(p)
        \/ ExitCache(p)
        \/ ExitFlag(p)

SpecThreads == InitThreads /\ [][NextThreads]_vars

\* ------------------------------------------- the keyboard (src/laba6_OOP.py)
\* The longest text and the longest history the keyboard is driven to.
MaxText == 2
MaxHistory == 3

Keys == { "a" }

\* A str value: its text, its length, and the number an f-string wrote into
\* it at the place of the + sign (0 when there is none).
Str(s, len, n) == [s |-> s, len |-> len, n |-> n]
BACKSPACE == Str("[BACKSPACE]", 11, 0)

KeyCommand(symbol) == [type |-> "KeyCommand", symbol |-> symbol, step |-> 0]
VolumeUpCommand(step) == [type |-> "VolumeUpCommand", symbol |-> "", step |-> step]
MediaPlayerCommand == [type |-> "MediaPlayerCommand", symbol |-> "", step |-> 0]
Commands == { KeyCommand("a"), VolumeUpCommand(50), MediaPlayerCommand }

\* command.execute()
Command_execute(command) ==
    CASE command.type = "KeyCommand" -> Str(command.symbol, 1, 0)
      [] command.type = "VolumeUpCommand" -> Str("volume increased +%", 21, command.step)
      [] OTHER -> Str("media player launched", 21, 0)

\* command.undo()
Command_undo(command) ==
    CASE command.type = "KeyCommand" -> BACKSPACE
      [] command.type = "VolumeUpCommand" -> Str("volume decreased +%", 21, command.step)
      [] OTHER -> Str("media player closed", 19, 0)

\* command.redo()
Command_redo(command) == Command_execute(command)

\* TextState.update
TextState_update(current_text, command_result) ==
    IF command_result = BACKSPACE
    THEN IF current_text # << >>
         THEN SubSeq(current_text, 1, Len(current_text) - 1)
         ELSE current_text
    ELSE IF command_result.len = 1 /\ command_result.s \notin { "[", "]" }
    THEN Append(current_text, command_result.s)
    ELSE current_text

Min(a, b) == IF a < b THEN a ELSE b
Max(a, b) == IF a > b THEN a ELSE b

\* VolumeState.update: the step is parsed back out of the result.
VolumeState_update(volume, command_result) ==
    IF command_result.s = "volume increased +%"
    THEN Min(100, volume + command_result.n)
    ELSE IF command_result.s = "volume decreased +%"
    THEN Max(0, volume - command_result.n)
    ELSE volume

\* MediaState.update: the body reads `result`, a name bound neither in the
\* method nor in the module, so the first comparison raises NameError.
MediaState_update(is_playing, command_result) ==
    [exc |-> "NameError", is_playing |-> is_playing]

\* Keyboard._process_command_result: the states are updated in the order
\* text, volume, media; an exception leaves the earlier updates in place.
process_command_result(kb, result) ==
    LET m == MediaState_update(kb.is_playing, result)
    IN [kb EXCEPT !.current_text = TextState_update(@, result),
                  !.volume = VolumeState_update(@, result),
                  !.is_playing = m.is_playing,
                  !.exc = m.exc]

\* History.add without the truncation of the undone tail.
History_add_keeps_tail(h, command) ==
    [h EXCEPT !.command_history = Append(@, command),
              !.history_pointer = @ + 1,
              !.ret = NoCommand, !.cut = 0]

\* History.add; cut is the number of undone commands it discarded.
History_add(h, command) ==
    LET kept == IF h.history_pointer < Len(h.command_history) - 1
                THEN SubSeq(h.command_history, 1, h.history_pointer + 1)
                ELSE h.command_history
    IN [h EXCEPT !.command_history = Append(kept, command),
                 !.history_pointer = @ + 1,
                 !.ret = NoCommand,
                 !.cut = Len(h.command_history) - Len(kept)]

\* History.undo; ret is the command returned.
History_undo(h) ==
    IF h.history_pointer >= 0
    THEN [h EXCEPT !.ret = h.command_history[h.history_pointer + 1],
                   !.history_pointer = @ - 1]
    ELSE [h EXCEPT !.ret = NoCommand]

\* History.redo
History_redo(h) ==
    IF h.history_pointer < Len(h.command_history) - 1
    THEN [h EXCEPT !.history_pointer = @ + 1,
                   !.ret = h.command_history[h.history_pointer + 2]]
    ELSE [h EXCEPT !.ret = NoCommand]

\* The call the client made last.
Called(kb, op) == [kb EXCEPT !.op = op, !.exc = NONE, !.key = ""]

\* The text and the history stay within the bounds.
InBounds(kb, h) ==
    /\ Len(kb.current_text) <= MaxText
    /\ Len(h.command_history) <= MaxHistory

bind_key ==
    \E key \in Keys, command \in Commands :
        /\ keyboard' = [Called(keyboard, "bind_key") EXCEPT
                           !.key_binds = update(@, key :> command)]
        /\ UNCHANGED << history, threads >>
        /\ UNCHANGED injector

unbind_key ==
    \E key \in Keys :
        /\ keyboard' = [Called(keyboard, "unbind_key") EXCEPT
              !.key_binds = [k \in DOMAIN @ \ { key } |-> @[k]]]
        /\ UNCHANGED << history, threads >>
        /\ UNCHANGED injector

\* Keyboard.execute_command: an exception of _process_command_result leaves
\* the method before the history and the log are written.
execute_command_of(kb, h, key) ==
    IF key \notin DOMAIN kb.key_binds
    THEN [keyboard |-> kb, history |-> h]
    ELSE LET command == kb.key_binds[key]
             result == Command_execute(command)
             processed == process_command_result(kb, result)
         IN IF processed.exc # NONE
            THEN [keyboard |-> processed, history |-> h]
            ELSE [keyboard |-> [processed EXCEPT !.output_log = Append(@, result.s)],
                  history |-> History_add(h, command)]

execute_command ==
    \E key \in Keys :
        LET r == execute_command_of(Called(keyboard, "execute_command"), history, key)
        IN /\ InBounds(r.keyboard, r.history)
           /\ keyboard' = [r.keyboard EXCEPT !.key = key]
           /\ history' = r.history
           /\ UNCHANGED threads
           /\ UNCHANGED injector

\* Keyboard.undo
Keyboard_undo_of(kb, h) ==
    LET undone == History_undo(h)
    IN IF undone.ret = NoCommand
       THEN [keyboard |-> kb, history |-> undone]
       ELSE LET processed == process_command_result(kb, Command_undo(undone.ret))
            IN IF processed.exc # NONE
               THEN [keyboard |-> processed, history |-> undone]
               ELSE [keyboard |-> [processed EXCEPT !.output_log = Append(@, "undo")],
                     history |-> undone]

Keyboard_undo ==
    LET r == Keyboard_undo_of(Called(keyboard, "undo"), history)
    IN /\ keyboard' = r.keyboard
       /\ history' = r.history
       /\ UNCHANGED threads
       /\ UNCHANGED injector

\* Keyboard.redo
Keyboard_redo_of(kb, h) ==
    LET redone == History_redo(h)
    IN IF redone.ret = NoCommand
       THEN [keyboard |-> kb, history |-> redone]
       ELSE LET processed == process_command_result(kb, Command_redo(redone.ret))
            IN IF processed.exc # NONE
               THEN [keyboard |-> processed, history |-> redone]
               ELSE [keyboard |-> [processed EXCEPT !.output_log = Append(@, "redo")],
                     history |-> redone]

Keyboard_redo ==
    LET r == Keyboard_redo_of(Called(keyboard, "redo"), history)
    IN /\ InBounds(r.keyboard, r.history)
       /\ keyboard' = r.keyboard
       /\ history' = r.history
       /\ UNCHANGED threads
       /\ UNCHANGED injector

\* The History object used on its own: add, undo and redo called directly.
HistoryAdd ==
    \E command \in Commands :
        /\ history.history_pointer + 1 < MaxHistory
        /\ history' = History_add(history, command)
        /\ keyboard' = Called(keyboard, "History.add")
        /\ UNCHANGED threads
        /\ UNCHANGED injector

HistoryUndo ==
    /\ history' = History_undo(history)
    /\ keyboard' = Called(keyboard, "History.undo")
    /\ UNCHANGED threads
    /\ UNCHANGED injector

HistoryRedo ==
    /\ history' = History_redo(history)
    /\ keyboard' = Called(keyboard, "History.redo")
    /\ UNCHANGED threads
    /\ UNCHANGED injector

NextKeyboard ==
    \/ bind_key
    \/ unbind_key
    \/ execute_command
    \/ Keyboard_undo
    \/ Keyboard_redo
    \/ HistoryAdd
    \/ HistoryUndo
    \/ HistoryRedo

SpecKeyboard == Init /\ [][NextKeyboard]_vars

\* ================================================================ properties
Caches == << singleton_cache, scoped_cache >>
Container == << registrations, singleton_cache, scoped_cache, in_scope, objects >>

\* Every call leaves its name in last: the step is the call get_instance(t),
\* a call of register, the entry of a scope, the exit from one.
IsGet(t) == last'.op = "get_instance" /\ last'.t = t
IsRegister == last'.op = "register"
IsOpenScope == last'.op = "scope"
IsCloseScope == last'.op = "scope_exit"
Succeeds == last'.exc = NONE

\* C1: a service type registered as Singleton and not registered again in
\* between gives the same object on every successful get_instance, whatever
\* other calls, and scopes opened and closed, lie between the two calls.
C1_SingletonIdentity ==
    [][\A t \in Interfaces :
        (IsGet(t) /\ IsSingleton(registrations, t) /\ Succeeds
            /\ singleton_got[t] # 0)
            => last'.ret.id = singleton_got[t]]_vars

\* The singleton of Interface3 is returned again after two more objects were
\* constructed and a scope, in which Interface2 was resolved, was closed.
C1_Witness ==
    /\ IsSingleton(registrations, Interface3)
    /\ last.op = "get_instance" /\ last.t = Interface3 /\ last.exc = NONE
    /\ last.ret.id = 1 /\ objects = 3 /\ last.made = << >>
    /\ closed_got[Interface2] # {}
    /\ ~in_scope

\* C2: a service type registered as Scoped gives the same object on every
\* get_instance made while one scope is open, and an object that no earlier,
\* closed scope returned for it.
C2_ScopedIdentity ==
    [][\A t \in Interfaces :
        (IsGet(t) /\ IsScoped(registrations, t) /\ Succeeds)
            => /\ scope_got[t] # 0 => last'.ret.id = scope_got[t]
               /\ last'.ret.id \notin closed_got[t]]_vars

\* In a second scope the scoped object 2 of Interface3 is returned again
\* after object 3 was constructed in that scope; the first scope returned
\* object 1.
C2_Witness ==
    /\ in_scope
    /\ IsScoped(registrations, Interface3)
    /\ last.op = "get_instance" /\ last.t = Interface3 /\ last.exc = NONE
    /\ closed_got[Interface3] = {1}
    /\ last.ret.id = 2 /\ last.made = << >> /\ objects = 3

\* C3: a service type registered as PerRequest is constructed anew by every
\* successful get_instance: the object returned is constructed by the call,
\* so it is none of the objects earlier calls returned, and the type's
\* entries in the two caches are what they were.
Entry(cache, t) == IF t \in DOMAIN cache THEN << cache[t] >> ELSE << >>
ScopedEntry(cache, t) == IF cache = None THEN << >> ELSE Entry(cache[1], t)

C3_PerRequestFresh ==
    [][\A t \in Interfaces :
        (IsGet(t) /\ IsPerRequest(registrations, t) /\ Succeeds)
            => /\ last'.ret.id > objects
               /\ last'.made # << >>
               /\ Entry(singleton_cache', t) = Entry(singleton_cache, t)
               /\ ScopedEntry(scoped_cache', t) = ScopedEntry(scoped_cache, t)
               /\ Entry(singleton_cache', t) = << >>
                    \/ Entry(singleton_cache', t)[1].id # last'.ret.id]_vars

\* The PerRequest type Interface2 was resolved for the third time.
C3_Witness ==
    /\ DOMAIN registrations = {Interface2}
    /\ IsPerRequest(registrations, Interface2)
    /\ last.op = "get_instance" /\ last.t = Interface2 /\ last.exc = NONE
    /\ last.ret.id = 3 /\ objects = 3

\* C4: get_instance of a Scoped service type while no scope is open raises
\* RuntimeError, constructs nothing and leaves the container as it was.
C4_ScopedNeedsScope ==
    [][\A t \in Interfaces :
        (IsGet(t) /\ IsScoped(registrations, t) /\ ~in_scope)
            => /\ last'.exc = "RuntimeError"
               /\ last'.made = << >>
               /\ UNCHANGED Container]_vars

\* The call fails after a scope in which the type was resolved has closed.
C4_Witness ==
    /\ ~in_scope
    /\ last.op = "get_instance" /\ last.exc = "RuntimeError"
    /\ IsScoped(registrations, last.t)
    /\ closed_got[last.t] # {}

\* C5: a get_instance that raises leaves both caches exactly as they were
\* before the call.
C5_FailureLeavesCaches ==
    [][\A t \in Interfaces :
        (IsGet(t) /\ ~Succeeds) => UNCHANGED Caches]_vars

\* C6: the scoped cache is present exactly while a scope is open.
C6_ScopedCacheIffScope == (scoped_cache # None) <=> in_scope

\* A call made in the body of the scope has just raised, with an instance in
\* the scoped cache.
C6_Witness ==
    /\ in_scope /\ scoped_cache # None
    /\ scoped_cache[1] # EmptyDict
    /\ last.op \in {"get_instance", "register", "scope"} /\ last.exc # NONE

\* C7: register called while a scope is open raises
\* InjectorAlreadyConfiguredError whatever its arguments, and leaves the
\* registry and both caches unchanged.
C7_RegisterInScope ==
    [][(IsRegister /\ in_scope)
            => /\ last'.exc = "InjectorAlreadyConfiguredError"
               /\ UNCHANGED << registrations, singleton_cache, scoped_cache >>]_vars

\* A register was refused, every type being registered already, in a scope
\* holding a scoped instance.
C7_Witness ==
    /\ in_scope
    /\ last.op = "register" /\ last.exc = "InjectorAlreadyConfiguredError"
    /\ DOMAIN registrations = Interfaces
    /\ scoped_cache # None /\ scoped_cache[1] # EmptyDict

\* C8: entering a scope while one is open raises RuntimeError and leaves the
\* open scope alone: the flag stays set and the scoped cache keeps its
\* instances.
C8_NoNestedScope ==
    [][(IsOpenScope /\ in_scope)
            => /\ last'.exc = "RuntimeError"
               /\ in_scope'
               /\ scoped_cache' = scoped_cache
               /\ scoped_cache' # None]_vars

\* A nested scope was refused while the open scope held an instance.
C8_Witness ==
    /\ last.op = "scope" /\ last.exc = "RuntimeError"
    /\ in_scope /\ scoped_cache # None /\ scoped_cache[1] # EmptyDict

\* C9: every exit from an open scope, by completion of the body or by an
\* exception raised in it, discards the scoped cache and clears the flag, so
\* that a scope can be entered and register is accepted again.
C9_ScopeAlwaysReleased ==
    [][IsCloseScope
            => /\ ~in_scope'
               /\ scoped_cache' = None
               /\ scope_enter(in_scope', scoped_cache').exc = NONE
               /\ \A x \in RegisterInputs :
                    register(registrations', in_scope', x[1], x[2], x[3], x[4]).exc
                        # "InjectorAlreadyConfiguredError"]_vars

\* The scope was left by the exception of a failed call of its body.
C9_Witness ==
    /\ last.op = "scope_exit" /\ last.exc # NONE
    /\ ~in_scope /\ scoped_cache = None

\* C10: register accepts a factory function without a life style and a
\* class with a life style; every other shape raises ValueError and stores
\* nothing.
WellShaped(class_type, life_style) ==
    \/ class_type \in Factories /\ life_style = NONE
    \/ class_type \in Classes /\ life_style # NONE

C10_OnlyTwoShapes ==
    [][\A x \in RegisterInputs :
        (Register(x[1], x[2], x[3], x[4]) /\ ~in_scope /\ ~WellShaped(x[2], x[3]))
            => /\ last'.exc = "ValueError"
               /\ registrations' = registrations]_vars

\* C11: a register of a class with a life style whose class is not a
\* subclass of the service type raises TypeError and leaves the registry
\* unchanged, so every class record of the registry binds a service type to
\* one of its subclasses.
ClassRecordsConform ==
    \A t \in DOMAIN registrations :
        ~registrations[t].is_factory => issubclass(registrations[t].class_type, t)

\* The register calls that pass a class of another service type with a life
\* style.
MismatchInputs ==
    { x \in RegisterInputs :
        x[2] \in Classes /\ x[3] # NONE /\ ~issubclass(x[2], x[1]) }

C11_TypeMismatchRejected ==
    /\ ClassRecordsConform
    /\ ~in_scope =>
         \A x \in MismatchInputs :
            LET r == register(registrations, in_scope, x[1], x[2], x[3], x[4])
            IN r.exc = "TypeError" /\ r.registrations = registrations

\* A class of another service type was refused, the registry holding the
\* records of both service types.
C11_Witness ==
    /\ last.op = "register" /\ last.exc = "TypeError"
    /\ DOMAIN registrations = Interfaces
    /\ \E t \in Interfaces : ~registrations[t].is_factory

\* C12: get_instance of a service type that has no registration raises
\* UnregisteredDependencyError, calls no factory and no constructor, and
\* leaves registry, caches and scope flag unchanged.
C12_UnregisteredHasNoEffect ==
    [][\A t \in Interfaces :
        (IsGet(t) /\ ~Registered(registrations, t))
            => /\ last'.exc = "UnregisteredDependencyError"
               /\ last'.made = << >> /\ last'.fcalls = 0
               /\ UNCHANGED Container]_vars

\* The call failed in an open scope, with a registration of the other type
\* and an instance in each cache.
C12_Witness ==
    /\ last.op = "get_instance" /\ last.exc = "UnregisteredDependencyError"
    /\ ~Registered(registrations, last.t)
    /\ registrations # EmptyDict
    /\ in_scope /\ scoped_cache # None /\ scoped_cache[1] # EmptyDict
    /\ singleton_cache # EmptyDict

\* C13: get_instance of a service type registered as a factory calls the
\* factory exactly once on every call and passes its outcome on: the object
\* the factory made, or the TypeError of a class that cannot be called
\* without arguments.  Neither cache changes and the cached singleton of an
\* earlier registration is not returned; a factory function succeeds inside
\* and outside a scope.
C13_FactoryAlwaysCalled ==
    [][\A t \in Interfaces :
        (IsGet(t) /\ IsFactory(registrations, t))
            => /\ last'.fcalls = 1
               /\ UNCHANGED Caches
               /\ last'.exc \in {NONE, "TypeError"}
               /\ registrations[t].class_type \in Factories => Succeeds
               /\ Succeeds => /\ last'.ret.id = objects + 1
                              /\ Len(last'.made) = 1
                              /\ objects' = objects + 1]_vars

\* The factory of Interface3 was called for the second time at least, in an
\* open scope, while the singleton cache holds the object of an earlier
\* Singleton registration of Interface3.
C13_Witness ==
    /\ IsFactory(registrations, Interface3)
    /\ last.op = "get_instance" /\ last.t = Interface3 /\ last.exc = NONE
    /\ last.fcalls = 1
    /\ in_scope
    /\ Interface3 \in DOMAIN singleton_cache
    /\ singleton_cache[Interface3].id = 1
    /\ last.ret.id = 3

\* C14: register changes no registry record but that of its service type
\* and leaves the singleton cache, the scoped cache, the scope flag and the
\* objects alone; get_instance of a Singleton type whose object is cached
\* returns the cached object and constructs nothing, also after the type was
\* registered again as Singleton with another class.
\* A get_instance call leaves the registry and the scope flag as they were,
\* so every registry and flag that register can meet is found in a state
\* that follows another call, and register is applied in those states.
C14_RegisterLeavesCaches ==
    /\ [](last.op # "get_instance" =>
            \A x \in RegisterInputs :
               LET r == register(registrations, in_scope, x[1], x[2], x[3], x[4])
               IN \A u \in Interfaces \ {x[1]} :
                     Entry(r.registrations, u) = Entry(registrations, u))
    /\ [][/\ (last'.op = "get_instance")
                => UNCHANGED << registrations, in_scope >>
          /\ IsRegister
                => UNCHANGED << singleton_cache, scoped_cache, in_scope, objects >>
          /\ \A t \in Interfaces :
                (/\ IsGet(t) /\ IsSingleton(registrations, t)
                 /\ t \in DOMAIN singleton_cache)
                    => /\ last'.exc = NONE
                       /\ last'.ret = singleton_cache[t]
                       /\ last'.made = << >>
                       /\ UNCHANGED Caches]_vars

\* Interface2 is registered as Singleton with Class2Level, Interface3 is
\* registered too, and get_instance(Interface2) returned the Class2Debug
\* object cached under the earlier registration.
C14_Witness ==
    /\ IsSingleton(registrations, Interface2)
    /\ registrations[Interface2].class_type = "Class2Level"
    /\ Registered(registrations, Interface3)
    /\ last.op = "get_instance" /\ last.t = Interface2 /\ last.exc = NONE
    /\ last.ret.cls = "Class2Debug"
    /\ last.made = << >>

\* C15: no call removes or replaces an entry of the singleton cache: a
\* service type that has a cached singleton keeps that very object through
\* every register, get_instance, scope entry and scope exit, and an entry
\* that appears is an object constructed by the call that stores it.
C15_SingletonCacheOnlyGrows ==
    [][\A t \in Interfaces :
        /\ t \in DOMAIN singleton_cache
            => Entry(singleton_cache', t) = Entry(singleton_cache, t)
        /\ (t \notin DOMAIN singleton_cache /\ t \in DOMAIN singleton_cache')
            => /\ last'.op = "get_instance"
               /\ singleton_cache'[t].id > objects]_vars

\* Object 1 is still the cached singleton of Interface3 after two more
\* objects were constructed, Interface3 was registered again as a factory
\* and a scope was opened and closed.
C15_Witness ==
    /\ Interface3 \in DOMAIN singleton_cache
    /\ singleton_cache[Interface3].id = 1
    /\ IsFactory(registrations, Interface3)
    /\ objects = 3
    /\ last.op = "scope_exit"

\* The object obj is what the record reg produces: the product of the
\* factory, or an instance of the registered class that received every
\* value of the record's params.
ProducedBy(reg, obj) ==
    IF reg.class_type \in Factories
    THEN obj.cls = "Class3Debug"
    ELSE /\ obj.cls = reg.class_type
         /\ reg.is_factory
              \/ \A n \in DOMAIN reg.params :
                    n \in DOMAIN obj.args /\ obj.args[n] = reg.params[n]

\* C16: a successful register leaves, for its service type, exactly the
\* record of its own arguments, whatever record the type had before, and
\* adds no other key; a successful PerRequest or Scoped resolution and a
\* successful factory call give an object produced by the record now in
\* the registry, with the behaviour of its life style: the Scoped object
\* is the entry of the scoped cache, the others are new and not cached.
C16_LastRegistrationWins ==
    /\ [](\A x \in RegisterInputs :
            LET r == register(registrations, in_scope, x[1], x[2], x[3], x[4])
            IN r.exc = NONE
                => /\ DOMAIN r.registrations = DOMAIN registrations \cup {x[1]}
                   /\ r.registrations[x[1]] =
                        [class_type |-> x[2], life_style |-> x[3],
                         params |-> x[4], is_factory |-> (x[3] = NONE)])
    /\ [][\A t \in Interfaces :
            (/\ IsGet(t) /\ Succeeds
             /\ \/ IsPerRequest(registrations, t)
                \/ IsScoped(registrations, t)
                \/ IsFactory(registrations, t))
                => /\ ProducedBy(registrations[t], last'.ret)
                   /\ IsScoped(registrations, t)
                        => ScopedEntry(scoped_cache', t) = << last'.ret >>
                   /\ ~IsScoped(registrations, t)
                        => /\ last'.ret.id > objects
                           /\ Entry(singleton_cache', t) = Entry(singleton_cache, t)
                           /\ ScopedEntry(scoped_cache', t) = ScopedEntry(scoped_cache, t)]_vars

\* Interface2, resolved earlier as a Singleton of Class2Debug, is now
\* registered PerRequest with Class2Level and level 1, and get_instance
\* constructed a Class2Level object that received that level.
C16_Witness ==
    /\ Interface2 \in DOMAIN singleton_cache
    /\ singleton_cache[Interface2].cls = "Class2Debug"
    /\ IsPerRequest(registrations, Interface2)
    /\ registrations[Interface2].class_type = "Class2Level"
    /\ registrations[Interface2].params = ("level" :> Lit(1))
    /\ last.op = "get_instance" /\ last.t = Interface2 /\ last.exc = NONE
    /\ last.ret.cls = "Class2Level"
    /\ last.ret.args["level"] = Lit(1)

\* C17: a dependency resolved while an object is constructed follows the
\* life style of its own registration.  When get_instance(Interface2)
\* constructs an object whose logger is resolved by the type Interface3,
\* the logger is the cached singleton of Interface3 when that is a
\* Singleton (the object get_instance(Interface3) returns), the entry of
\* the open scope when it is Scoped, and a new object when it is
\* PerRequest or a factory; PerRequest requesters are new objects each time.
C17_DependencyOwnLifeStyle ==
    [][/\ (/\ IsGet(Interface2) /\ Succeeds
           /\ ~IsFactory(registrations, Interface2)
           /\ last'.ret.id > objects
           /\ Registered(registrations, Interface3)
           /\ "logger" \notin DOMAIN registrations[Interface2].params)
            => LET logger == last'.ret.args["logger"]
               IN /\ IsSingleton(registrations, Interface3)
                      => /\ Entry(singleton_cache', Interface3) = << logger >>
                         /\ Interface3 \in DOMAIN singleton_cache
                              => logger = singleton_cache[Interface3]
                  /\ IsScoped(registrations, Interface3)
                      => /\ ScopedEntry(scoped_cache', Interface3) = << logger >>
                         /\ ScopedEntry(scoped_cache, Interface3) # << >>
                              => logger = scoped_cache[1][Interface3]
                  /\ (\/ IsPerRequest(registrations, Interface3)
                      \/ IsFactory(registrations, Interface3))
                      => logger.id > objects
       /\ (IsGet(Interface2) /\ Succeeds /\ IsPerRequest(registrations, Interface2))
            => last'.ret.id > objects
       /\ (IsGet(Interface3) /\ Succeeds /\ IsSingleton(registrations, Interface3))
            => Entry(singleton_cache', Interface3) = << last'.ret >>]_vars

\* With Interface3 a Singleton and Interface2 PerRequest, the second
\* worker, object 3, was constructed alone and holds logger 1, the cached
\* singleton that the first worker, object 2, received.
C17_Witness ==
    /\ IsSingleton(registrations, Interface3)
    /\ IsPerRequest(registrations, Interface2)
    /\ registrations[Interface2].class_type = "Class2Debug"
    /\ registrations[Interface2].params = EmptyDict
    /\ last.op = "get_instance" /\ last.t = Interface2 /\ last.exc = NONE
    /\ last.made = << "Class2Debug" >>
    /\ last.ret.id = 3
    /\ last.ret.args["logger"].id = 1
    /\ singleton_cache[Interface3] = last.ret.args["logger"]

\* C18: an object that get_instance constructs for a class registration
\* receives, for every name in the params of that registration, the value
\* given there: not the object resolved for the parameter's type and not
\* the value another registration gives the name.
C18_OwnParamsOverride ==
    [][\A t \in Interfaces :
        (/\ IsGet(t) /\ Succeeds
         /\ Registered(registrations, t) /\ ~IsFactory(registrations, t)
         /\ last'.ret.id > objects)
            => \A n \in DOMAIN registrations[t].params :
                  /\ n \in DOMAIN last'.ret.args
                  /\ last'.ret.args[n] = registrations[t].params[n]]_vars

\* Class2Debug is registered with a literal for its logger while Interface3
\* is registered: the call constructed the Class3Debug logger for the
\* parameter's type and then the Class2Debug object, which holds the
\* literal.
C18_Witness ==
    /\ Registered(registrations, Interface2)
    /\ registrations[Interface2].class_type = "Class2Debug"
    /\ registrations[Interface2].params = ("logger" :> Lit(7))
    /\ last.op = "get_instance" /\ last.t = Interface2 /\ last.exc = NONE
    /\ last.made = << "Class3Debug", "Class2Debug" >>
    /\ last.ret.args = ("logger" :> Lit(7))

\* The values the registrations now in the registry give the name n in
\* their params, class and factory registrations alike.
PoolValues(regs, n) ==
    { regs[t].params[n] : t \in { u \in DOMAIN regs : n \in DOMAIN regs[u].params } }

\* get_instance(t) has to construct: t is a class registration and no cached
\* object of t is at hand.
MustConstruct(t) ==
    /\ Registered(registrations, t) /\ ~IsFactory(registrations, t)
    /\ IsSingleton(registrations, t) => t \notin DOMAIN singleton_cache
    /\ IsScoped(registrations, t) => ScopedEntry(scoped_cache, t) = << >>

\* C19: a constructor parameter whose type is not registered takes the
\* value some registration in the registry, a factory registration
\* included, gives its name, and when no registration names it the
\* resolution raises UnregisteredDependencyError, constructs nothing from
\* that parameter on and no instance of the owning class is created.
C19_PooledParamOrFailure ==
    /\ [](\A cls \in Classes : \A i \in 1..Len(get_type_hints(cls)) :
            LET n == get_type_hints(cls)[i].name
                r == resolve_params(registrations,
                         Frame(singleton_cache, scoped_cache, objects),
                         cls, i, EmptyDict, 1)
            IN get_type_hints(cls)[i].type \notin DOMAIN registrations
                => IF PoolValues(registrations, n) # {}
                   THEN /\ r.exc = NONE => r.ret[n] \in PoolValues(registrations, n)
                        /\ i = Len(get_type_hints(cls)) => r.exc = NONE
                   ELSE /\ r.exc = "UnregisteredDependencyError"
                        /\ r.objects = objects /\ r.made = << >>)
    /\ [][\A t \in Interfaces :
            (IsGet(t) /\ MustConstruct(t))
                => LET cls == registrations[t].class_type
                   IN \A i \in 1..Len(get_type_hints(cls)) :
                        LET n == get_type_hints(cls)[i].name
                        IN get_type_hints(cls)[i].type \notin DOMAIN registrations
                            => IF PoolValues(registrations, n) # {}
                               THEN (Succeeds /\ n \notin DOMAIN registrations[t].params)
                                      => last'.ret.args[n] \in PoolValues(registrations, n)
                               ELSE /\ last'.exc \in {"UnregisteredDependencyError",
                                                      "RuntimeError"}
                                    /\ \A k \in 1..Len(last'.made) : last'.made[k] # cls
                                    /\ last'.exc = "RuntimeError"
                                         => \/ IsScoped(registrations, Interface3)
                                            \/ IsScoped(registrations, t)]_vars

\* Class2Level is registered without params and the factory registration of
\* Interface3 carries level 2: the Class2Level object constructed received
\* level 2.
C19_Witness ==
    /\ Registered(registrations, Interface2)
    /\ registrations[Interface2].class_type = "Class2Level"
    /\ registrations[Interface2].params = EmptyDict
    /\ IsFactory(registrations, Interface3)
    /\ registrations[Interface3].params = ("level" :> Lit(2))
    /\ last.op = "get_instance" /\ last.t = Interface2 /\ last.exc = NONE
    /\ last.ret.cls = "Class2Level"
    /\ last.ret.id = objects
    /\ last.ret.args["level"] = Lit(2)

\* The class registered for t declares a constructor parameter of the
\* service type u, and u is registered with a class too.
DependsOn(regs, t, u) ==
    /\ Registered(regs, t) /\ ~IsFactory(regs, t)
    /\ Registered(regs, u) /\ ~IsFactory(regs, u)
    /\ \E i \in 1..Len(get_type_hints(regs[t].class_type)) :
          get_type_hints(regs[t].class_type)[i].type = u

\* u is reached from t along declared parameter types, in as many steps as
\* there are service types at most.
RECURSIVE ReachesIn(_, _, _, _)
ReachesIn(regs, t, u, n) ==
    /\ n > 0
    /\ \/ DependsOn(regs, t, u)
       \/ \E v \in Interfaces :
             DependsOn(regs, t, v) /\ ReachesIn(regs, v, u, n - 1)

OnCycle(regs, t) == ReachesIn(regs, t, t, Cardinality(Interfaces))

\* An object of t is in the cache its life style reads.
Cached(t) ==
    \/ IsSingleton(registrations, t) /\ t \in DOMAIN singleton_cache
    \/ IsScoped(registrations, t) /\ ScopedEntry(scoped_cache, t) # << >>

C23_ScopedDependencyNeedsScope ==
    [][\A t \in Interfaces :
        (/\ IsGet(t) /\ ~in_scope
         /\ \/ IsPerRequest(registrations, t)
            \/ IsSingleton(registrations, t) /\ t \notin DOMAIN singleton_cache
         /\ Len(get_type_hints(registrations[t].class_type)) > 0
         /\ IsScoped(registrations,
                     get_type_hints(registrations[t].class_type)[1].type))
            => /\ last'.exc = "RuntimeError"
               /\ last'.made = << >>
               /\ UNCHANGED Container]_vars

\* Interface2 is a Singleton of Class2Debug with no cached object and its
\* logger type Interface3 is Scoped: after a scope in which Interface3 was
\* resolved has been closed, get_instance(Interface2) raised RuntimeError.
C23_Witness ==
    /\ IsSingleton(registrations, Interface2)
    /\ registrations[Interface2].class_type = "Class2Debug"
    /\ Interface2 \notin DOMAIN singleton_cache
    /\ IsScoped(registrations, Interface3)
    /\ closed_got[Interface3] # {}
    /\ ~in_scope
    /\ last.op = "get_instance" /\ last.t = Interface2
    /\ last.exc = "RuntimeError"

\* The logger held by the cached singleton of Interface2, << >> when there
\* is none.
HeldLogger(cache) ==
    IF Interface2 \in DOMAIN cache /\ "logger" \in DOMAIN cache[Interface2].args
    THEN << cache[Interface2].args["logger"] >>
    ELSE << >>

\* C24: a Singleton of Interface2 whose logger type Interface3 is Scoped,
\* once resolved, is returned again by every get_instance, in a scope or
\* out of one, with the logger it was constructed with.  Once that logger
\* is not the entry of the scoped cache (its scope was closed) it never is
\* again, and a Scoped resolution of Interface3 then returns another
\* object than the one the singleton holds.
C24_SingletonCapturesScoped ==
    [][/\ (/\ IsGet(Interface2) /\ IsSingleton(registrations, Interface2)
           /\ IsScoped(registrations, Interface3)
           /\ singleton_got[Interface2] # 0)
            => /\ Succeeds
               /\ last'.ret.id = singleton_got[Interface2]
               /\ << last'.ret >> = Entry(singleton_cache, Interface2)
               /\ HeldLogger(singleton_cache') = HeldLogger(singleton_cache)
       /\ (/\ HeldLogger(singleton_cache) # << >>
           /\ ScopedEntry(scoped_cache, Interface3) # HeldLogger(singleton_cache))
            => /\ ScopedEntry(scoped_cache', Interface3) # HeldLogger(singleton_cache')
               /\ (IsGet(Interface3) /\ IsScoped(registrations, Interface3)
                                     /\ Succeeds)
                    => << last'.ret >> # HeldLogger(singleton_cache)
       /\ (IsCloseScope /\ in_scope) => scoped_cache' = None]_vars

\* The cached singleton of Interface2 holds object 1, which a closed scope
\* returned for the Scoped Interface3; in the scope now open
\* get_instance(Interface3) returned object 3.
C24_Witness ==
    /\ IsSingleton(registrations, Interface2)
    /\ IsScoped(registrations, Interface3)
    /\ HeldLogger(singleton_cache) # << >>
    /\ HeldLogger(singleton_cache)[1].id = 1
    /\ 1 \in closed_got[Interface3]
    /\ singleton_got[Interface2] = 2
    /\ in_scope
    /\ last.op = "get_instance" /\ last.t = Interface3 /\ last.exc = NONE
    /\ last.ret.id = 3

\* C25: a get_instance that raises leaves the entries of its service type
\* in both caches as they were, so a Singleton or Scoped type whose
\* construction failed has no entry; a get_instance of a class
\* registration that has no cached object and succeeds returns an object
\* constructed by that call.
C25_FailureCachesNothing ==
    [][\A t \in Interfaces :
        /\ (IsGet(t) /\ ~Succeeds)
            => /\ Entry(singleton_cache', t) = Entry(singleton_cache, t)
               /\ ScopedEntry(scoped_cache', t) = ScopedEntry(scoped_cache, t)
        /\ (IsGet(t) /\ ~Succeeds /\ MustConstruct(t))
            => /\ IsSingleton(registrations, t) => t \notin DOMAIN singleton_cache'
               /\ IsScoped(registrations, t)
                    => ScopedEntry(scoped_cache', t) = << >>
               /\ \A k \in 1..Len(last'.made) :
                     last'.made[k] # registrations[t].class_type
        /\ (IsGet(t) /\ Succeeds /\ MustConstruct(t))
            => /\ last'.ret.id = objects'
               /\ last'.ret.id > objects
               /\ last'.made[Len(last'.made)] = registrations[t].class_type]_vars

\* get_instance of the Singleton Interface2 of Class2Level raised after its
\* logger had been constructed: Interface2 has no entry in the singleton
\* cache.
C25_Witness ==
    /\ IsSingleton(registrations, Interface2)
    /\ registrations[Interface2].class_type = "Class2Level"
    /\ last.op = "get_instance" /\ last.t = Interface2
    /\ last.exc = "UnregisteredDependencyError"
    /\ last.made = << "Class3Debug" >>
    /\ Interface2 \notin DOMAIN singleton_cache

\* C26: no step removes a service type from the registry; in every state
\* the keys of the singleton cache and of the scoped cache are registered
\* service types, and every key of the scoped cache is registered with a
\* class and the life style Scoped.
C26_CacheKeysRegistered ==
    /\ [](/\ DOMAIN singleton_cache \subseteq DOMAIN registrations
          /\ scoped_cache # None
               => \A t \in DOMAIN scoped_cache[1] : IsScoped(registrations, t))
    /\ [][DOMAIN registrations \subseteq DOMAIN registrations']_vars

\* Both service types are registered; the open scope holds an entry for
\* the Scoped Interface3 and the singleton cache an entry for Interface2,
\* which is by now registered PerRequest.
C26_Witness ==
    /\ DOMAIN registrations = Interfaces
    /\ in_scope /\ scoped_cache # None
    /\ DOMAIN scoped_cache[1] = {Interface3}
    /\ DOMAIN singleton_cache = {Interface2}
    /\ IsPerRequest(registrations, Interface2)

\* C27: when get_instance constructs an object of Interface2 whose
\* registration gives a literal for the parameter `logger` while the
\* parameter's type Interface3 is registered, Interface3 is resolved first
\* all the same.  A Scoped Interface3 with no scope open raises
\* RuntimeError and nothing is constructed; otherwise the dependency is
\* constructed before the object unless its cache holds it, a Singleton or
\* Scoped dependency is in its cache afterwards, and the object receives
\* the literal.
C27_OverrideStillResolves ==
    [][(/\ IsGet(Interface2) /\ MustConstruct(Interface2)
        /\ "logger" \in DOMAIN registrations[Interface2].params
        /\ Registered(registrations, Interface3)
        /\ IsScoped(registrations, Interface2) => in_scope)
        => LET cls == registrations[Interface2].class_type
               both == << "Class3Debug", cls >>
           IN IF IsScoped(registrations, Interface3) /\ ~in_scope
              THEN /\ last'.exc = "RuntimeError"
                   /\ last'.made = << >>
                   /\ UNCHANGED Container
              ELSE /\ Succeeds
                   /\ last'.ret.args["logger"]
                        = registrations[Interface2].params["logger"]
                   /\ IsSingleton(registrations, Interface3)
                        => /\ Interface3 \in DOMAIN singleton_cache'
                           /\ Interface3 \notin DOMAIN singleton_cache
                                => last'.made = both
                   /\ IsScoped(registrations, Interface3)
                        => /\ ScopedEntry(scoped_cache', Interface3) # << >>
                           /\ ScopedEntry(scoped_cache, Interface3) = << >>
                                => last'.made = both
                   /\ (\/ IsPerRequest(registrations, Interface3)
                       \/ IsFactory(registrations, Interface3))
                        => last'.made = both /\ objects' = objects + 2]_vars

\* Class2Debug is registered with a literal logger and Interface3 is a
\* Singleton: the call constructed the logger, object 1, which is now the
\* cached singleton, and then object 2, which holds the literal.
C27_Witness ==
    /\ Registered(registrations, Interface2)
    /\ registrations[Interface2].params = ("logger" :> Lit(7))
    /\ IsSingleton(registrations, Interface3)
    /\ last.op = "get_instance" /\ last.t = Interface2 /\ last.exc = NONE
    /\ last.made = << "Class3Debug", "Class2Debug" >>
    /\ last.ret.id = 2
    /\ last.ret.args = ("logger" :> Lit(7))
    /\ Interface3 \in DOMAIN singleton_cache
    /\ singleton_cache[Interface3].id = 1

\* A cycle of declared parameter types is reached from t.
CycleReachable(regs, t) ==
    \/ OnCycle(regs, t)
    \/ \E u \in Interfaces :
          ReachesIn(regs, t, u, Cardinality(Interfaces)) /\ OnCycle(regs, u)

\* The number of objects of class cls among the objects a call made.
Count(made, cls) == Cardinality({ k \in 1..Len(made) : made[k] = cls })

\* C28: when no cycle of declared parameter types is reached from the
\* requested type, get_instance ends with an object or with one of the
\* container's own errors and never with an exhausted stack; during the
\* call a Singleton or Scoped type is constructed once at most, also when
\* two parameters of the constructor ask for it.
C28_AcyclicTerminates ==
    [][\A t \in Interfaces :
        (IsGet(t) /\ ~CycleReachable(registrations, t))
            => /\ last'.exc \in {NONE, "UnregisteredDependencyError",
                                  "RuntimeError", "TypeError"}
               /\ \A u \in Interfaces :
                    (IsSingleton(registrations, u) \/ IsScoped(registrations, u))
                        => Count(last'.made, registrations[u].class_type) <= 1]_vars

\* Class2Pair, whose two parameters are of type Interface3, was
\* constructed with Interface3 a Singleton: the call made one Class3Debug
\* object and handed it to both parameters.
C28_Witness ==
    /\ Registered(registrations, Interface2)
    /\ registrations[Interface2].class_type = "Class2Pair"
    /\ IsSingleton(registrations, Interface3)
    /\ last.op = "get_instance" /\ last.t = Interface2 /\ last.exc = NONE
    /\ last.made = << "Class3Debug", "Class2Pair" >>
    /\ last.ret.args["logger"] = last.ret.args["backup"]


\* ---------------------------------------------------------------- C21
\* The program positions of a thread inside get_instance.
SingletonPcs == { "singleton_in", "singleton_read", "singleton_create", "singleton_store" }
ScopedPcs == { "scoped_none", "scoped_in", "scoped_read", "scoped_create", "scoped_store" }

\* Thread p completed a get_instance(Interface3) that saw no cache entry.
ReturnedOnMiss(p) ==
    /\ threads[p].pc = "idle" /\ threads[p].exc = NONE
    /\ threads[p].miss /\ threads[p].ret # NoValue

\* C21: nothing excludes two threads from the lookup-construct-store step of
\* a Singleton type: each thread whose lookup missed returns the instance it
\* constructed itself, so two threads that both missed hold two different
\* instances of the Singleton type.
C21_RacingSingletonsDiffer ==
    IsSingleton(registrations, Interface3) =>
        \A p, q \in Threads :
            (p # q /\ ReturnedOnMiss(p) /\ ReturnedOnMiss(q)) =>
                /\ threads[p].ret # threads[q].ret
                /\ threads[p].ret.cls = "Class3Debug"
                /\ threads[q].ret.cls = "Class3Debug"

\* Both threads missed, both constructed, and the cache holds the instance
\* of the thread that stored last.
C21_Witness ==
    /\ IsSingleton(registrations, Interface3)
    /\ ReturnedOnMiss(1) /\ ReturnedOnMiss(2)
    /\ threads[1].ret # threads[2].ret
    /\ Interface3 \in DOMAIN singleton_cache
    /\ singleton_cache[Interface3] \in { threads[1].ret, threads[2].ret }

\* ---------------------------------------------------------------- C22
\* Thread q returns or raises from a Scoped resolution it began after another
\* thread's scope exit cleared the cache under q's with block.
FinishesLate(q) ==
    /\ threads[q].pc \in ScopedPcs /\ threads'[q].pc = "idle"
    /\ threads[q].body /\ threads[q].late

\* C22 as stated: the resolution of a thread whose scope another thread tore
\* down raises the scope error or returns an instance other than the one the
\* thread obtained earlier in the same with block.
C22_TornScopeFailsOrDiffers ==
    [][\A q \in Threads : FinishesLate(q) =>
          \/ threads'[q].exc = "RuntimeError"
          \/ /\ threads'[q].exc = NONE
             /\ threads'[q].ret # NoValue
             /\ threads'[q].ret # threads[q].got]_vars

\* C22: such a resolution raises the scope error, raises the TypeError or
\* KeyError of a cache that became None or was replaced while the resolution
\* ran, or returns an instance other than the one obtained earlier in the
\* same with block.
C22_TornScopeNeverSameInstance ==
    [][\A q \in Threads : FinishesLate(q) =>
          \/ threads'[q].exc \in { "RuntimeError", "TypeError", "KeyError" }
          \/ /\ threads'[q].exc = NONE
             /\ threads'[q].ret # NoValue
             /\ threads'[q].ret # threads[q].got]_vars

\* A thread that obtained a Scoped instance in its with block, lost the
\* scope to the other thread's exit, and resolved again: the call raised on
\* the cache that the other thread set to None during it.
C22_Witness ==
    \E q \in Threads :
        /\ threads[q].pc = "idle" /\ threads[q].body
        /\ threads[q].torn /\ threads[q].late
        /\ threads[q].got # NoValue
        /\ threads[q].exc = "TypeError"

\* The same thread resolving again after the other thread opened a scope of
\* its own: it holds a new instance.
C22_WitnessDiffers ==
    \E q \in Threads :
        /\ threads[q].pc = "idle" /\ threads[q].body
        /\ threads[q].torn /\ threads[q].late
        /\ threads[q].exc = NONE /\ threads[q].ret # NoValue


\* ---------------------------------------------------------------- C29
\* The step is a call of Keyboard.execute_command.
IsExecuteCommand == keyboard'.op = "execute_command"

\* What the comparisons of MediaState.update say the media state becomes.
media_after(is_playing, command_result) ==
    IF command_result.s = "media player launched" THEN TRUE
    ELSE IF command_result.s = "media player closed" THEN FALSE
    ELSE is_playing

\* C29: execute_command(key) for a bound key raises nothing, applies the
\* command's result to the text, the volume and the media state, appends the
\* command to the history (size and pointer grow by one) and the result to
\* the output log; for an unbound key nothing changes.
C29_ExecuteRecordsCommand ==
    [][IsExecuteCommand =>
          IF keyboard'.key \in DOMAIN keyboard.key_binds
          THEN LET command == keyboard.key_binds[keyboard'.key]
                   result == Command_execute(command)
               IN /\ keyboard'.exc = NONE
                  /\ keyboard'.current_text =
                         TextState_update(keyboard.current_text, result)
                  /\ keyboard'.volume = VolumeState_update(keyboard.volume, result)
                  /\ keyboard'.is_playing = media_after(keyboard.is_playing, result)
                  /\ Len(history'.command_history) = Len(history.command_history) + 1
                  /\ history'.history_pointer = history.history_pointer + 1
                  /\ history'.command_history[history'.history_pointer + 1] = command
                  /\ keyboard'.output_log = Append(keyboard.output_log, result.s)
          ELSE /\ keyboard'.exc = NONE
               /\ keyboard'.key_binds = keyboard.key_binds
               /\ keyboard'.current_text = keyboard.current_text
               /\ keyboard'.volume = keyboard.volume
               /\ keyboard'.is_playing = keyboard.is_playing
               /\ keyboard'.output_log = keyboard.output_log
               /\ history' = history]_vars

\* ---------------------------------------------------------------- C30
history_size(h) == Len(h.command_history)

PointerInRange(h) ==
    /\ -1 <= h.history_pointer
    /\ h.history_pointer <= history_size(h) - 1

\* The call left the commands and the pointer as they were and returned None.
ReturnedNoneUnchanged(h, after) ==
    /\ after.ret = NoCommand
    /\ after.command_history = h.command_history
    /\ after.history_pointer = h.history_pointer

\* C30: the pointer of a History stays between -1 and history_size - 1; undo
\* at pointer -1 and redo at the end return None and change nothing; add
\* drops the commands after the pointer, so after every add the pointer is
\* history_size - 1 and a redo returns None.
C30_HistoryPointerInRange ==
    /\ [](PointerInRange(history))
    /\ [][/\ (keyboard'.op \in { "History.undo", "undo" }
              /\ history.history_pointer = -1)
                 => ReturnedNoneUnchanged(history, history')
          /\ (keyboard'.op \in { "History.redo", "redo" }
              /\ history.history_pointer = history_size(history) - 1)
                 => ReturnedNoneUnchanged(history, history')
          /\ keyboard'.op = "History.add" =>
                 /\ history'.history_pointer = history_size(history') - 1
                 /\ history'.history_pointer = history.history_pointer + 1
                 /\ SubSeq(history'.command_history, 1, history.history_pointer + 1)
                      = SubSeq(history.command_history, 1, history.history_pointer + 1)
                 /\ ReturnedNoneUnchanged(history', History_redo(history'))]_vars

\* An add after undos has just discarded the undone tail of the history.
C30_Witness ==
    /\ keyboard.op = "History.add"
    /\ history.cut >= 1
    /\ history_size(history) >= 2
    /\ history.history_pointer = history_size(history) - 1

====
